---- MODULE Spec2Model ----
(***************************************************************************)
(* Mini-CRM lead console: the lead collection kept by pages/Index.tsx, the *)
(* creation form of components/LeadCreationForm.tsx and the dashboard of   *)
(* components/LeadDashboard.tsx, with the remote lead resource and the     *)
(* extraction resource as an environment that answers each fetch with one  *)
(* of the outcomes a fetch can have.                                       *)
(*                                                                         *)
(* Strings are sequences of one-character strings, so that emptiness,      *)
(* trimming and number formatting are computed and not assumed.            *)
(***************************************************************************)
EXTENDS Integers, Sequences, FiniteSets, Bags

VARIABLES
    indexLeads,    \* Index.tsx: const [leads, setLeads] = useState<Lead[]>([])
    formData,      \* LeadCreationForm: { name, email, phone }
    uploadedFile,  \* LeadCreationForm: media type of the held File, "" for null
    isProcessing,  \* LeadCreationForm: extraction in progress
    leads,         \* LeadDashboard: const [leads, setLeads] = useState<Lead[]>([])
    renderError,   \* LeadDashboard: the leads state is not an array, render throws
    filter,        \* LeadDashboard: "All" | "New" | "Contacted"
    toast,         \* the notification the last step handed to toast(), if any
    pending,       \* bag of the fetch calls issued and not yet settled
    now,           \* the value Date.now() returns
    event,         \* the user event or fetch settlement handled by the last step
    modalMounted,  \* LeadDashboard: selectedLead holds a lead, the modal is rendered
    isOpen,        \* LeadInteractionModal: the isOpen prop
    leadName,      \* LeadInteractionModal: lead.name of the lead prop
    messages,      \* LeadInteractionModal: ChatMessage[]
    inputMessage,  \* LeadInteractionModal: the input buffer
    loading,       \* LeadInteractionModal: a stream is awaited
    abortControllerRef, \* LeadInteractionModal: the AbortController held, 0 for null
    aborted,       \* the AbortControllers abort() was called on
    streams        \* the calls of streamChatGPT, in the order they were made

storeVars == <<indexLeads, formData, uploadedFile, isProcessing, leads,
               renderError, filter, pending>>

chatVars == <<modalMounted, isOpen, leadName, messages, inputMessage, loading,
              abortControllerRef, aborted, streams>>

vars == <<indexLeads, formData, uploadedFile, isProcessing, leads, renderError,
          filter, toast, pending, now, event, modalMounted, isOpen, leadName,
          messages, inputMessage, loading, abortControllerRef, aborted, streams>>

(***************************************************************************)
(* Bounds of the model.                                                    *)
(***************************************************************************)
MaxNow == 2        \* Date.now() ranges over 1..MaxNow
MaxLeads == 2      \* leads held by Index plus creations in flight
MaxRemote == 2     \* longest list the remote resource returns
MaxPending == 2    \* most fetch calls the dashboard has in flight at once
MaxStreams == 3    \* calls of streamChatGPT in one run
MaxLiveStreams == 1  \* calls of streamChatGPT in one run checked for progress

(***************************************************************************)
(* Strings.                                                                *)
(***************************************************************************)
Digits == <<"0", "1", "2", "3", "4", "5", "6", "7", "8", "9">>

RECURSIVE toString(_)
toString(n) ==
    IF n < 10 THEN <<Digits[n + 1]>>
    ELSE toString(n \div 10) \o <<Digits[(n % 10) + 1]>>

Whitespace == {" "}

RECURSIVE TrimStart(_)
TrimStart(s) ==
    IF s # <<>> /\ Head(s) \in Whitespace THEN TrimStart(Tail(s)) ELSE s

RECURSIVE TrimEnd(_)
TrimEnd(s) ==
    IF s # <<>> /\ s[Len(s)] \in Whitespace
    THEN TrimEnd(SubSeq(s, 1, Len(s) - 1)) ELSE s

Trim(s) == TrimEnd(TrimStart(s))

Truthy(s) == s # <<>>

\* a || b on strings
OrElse(a, b) == IF Truthy(a) THEN a ELSE b

(***************************************************************************)
(* Leads.                                                                  *)
(***************************************************************************)
\* createdAt is left out: no operation of the lead store reads or writes it
\* after the lead is built.
Lead(id, name, email, phone, status, source) ==
    [id |-> id, name |-> name, email |-> email, phone |-> phone,
     status |-> status, source |-> source]

Statuses == {"New", "Contacted"}
Filters == {"All", "New", "Contacted"}

\* The new lead put behind the leads held, not in front of them.
handleLeadAdded_Behind(prev, newLead) == prev \o <<newLead>>

handleLeadAdded(prev, newLead) == <<newLead>> \o prev

onLeadUpdated(prev, leadId, newStatus) ==
    [i \in DOMAIN prev |->
        IF prev[i].id = leadId THEN [prev[i] EXCEPT !.status = newStatus]
        ELSE prev[i]]

\* The first row removed, whichever lead was named.
onLeadDeleted_FirstRow(prev, leadId) ==
    IF prev = <<>> THEN prev ELSE Tail(prev)

onLeadDeleted(prev, leadId) ==
    SelectSeq(prev, LAMBDA lead : lead.id # leadId)

\* The "All" option compared with the status like the other two.
filteredLeads_NoAll(ls, f) ==
    SelectSeq(ls, LAMBDA lead : lead.status = f)

filteredLeads(ls, f) ==
    SelectSeq(ls, LAMBDA lead : IF f = "All" THEN TRUE ELSE lead.status = f)

ToggleStatus(status) == IF status = "New" THEN "Contacted" ELSE "New"

(***************************************************************************)
(* Notifications: the argument of each toast() call of the source.         *)
(***************************************************************************)
Toast(title, description, variant) ==
    [title |-> title, description |-> description, variant |-> variant]

NoToast == Toast("", "", "")
MissingInformation ==
    Toast("Missing Information", "Please fill in at least name and email", "destructive")
LeadAdded == Toast("Lead Added", "was added manually.", "default")
SaveFailed == Toast("Error", "Failed to save lead to server.", "destructive")
InvalidFileType ==
    Toast("Invalid File Type", "Only PDF files are supported", "destructive")
LeadExtracted ==
    Toast("Lead Extracted", "Lead info successfully extracted from document.", "default")
ExtractionFailed == Toast("Error", "Document processing failed", "destructive")
LeadsRefreshed ==
    Toast("Leads Refreshed", "Latest leads loaded from the database.", "default")
LoadFailed == Toast("Error", "Unable to load leads from server", "destructive")
StatusUpdated == Toast("Status Updated", "Lead status changed to", "default")
StatusUpdateFailed ==
    Toast("Error", "Failed to update lead status in the database", "destructive")
LeadDeleted == Toast("Lead Deleted", "has been removed", "destructive")
DeleteFailed == Toast("Error", "Failed to delete lead from server", "destructive")

(***************************************************************************)
(* The environment: what the user can type and pick, and what a fetch can  *)
(* settle with.                                                            *)
(***************************************************************************)
Fields == {"name", "email", "phone"}
InputValues(field) ==
    CASE field = "name" -> {<<>>, <<" ">>, <<"a">>}
      [] field = "email" -> {<<>>, <<"a">>}
      [] field = "phone" -> {<<>>}
EmptyForm == [name |-> <<>>, email |-> <<>>, phone |-> <<>>]

NoFile == ""
PdfType == "application/pdf"
\* Plain text let through as well.
allowedTypes_WithText == {PdfType, "text/plain"}

allowedTypes == {PdfType}
FileTypes == {PdfType, "text/plain"}

\* fetch settles in one of four ways: a 2xx response with the JSON body of
\* the resource ("ok"), a non-2xx response with a JSON error object
\* ("httpError"), a non-2xx response whose body is not JSON, so that
\* response.json() rejects ("httpErrorNotJson"), or a rejected promise
\* ("networkError").  fetch does not reject on a non-2xx status.
Outcomes == {"ok", "httpError", "httpErrorNotJson", "networkError"}
Rejected(outcome) == outcome = "networkError"
ResponseOk(outcome) == outcome = "ok"
JsonBody(outcome) == outcome \in {"ok", "httpError"}
RemoteFailed(outcome) == Rejected(outcome) \/ ~ResponseOk(outcome)

\* The ids the remote resource hands out, in the order in which it lists
\* the leads that carry them; the first two are ids the client clock can
\* produce as well.
ServerIdOrder == <<(<<"1">>), (<<"2">>), (<<"7">>)>>
ServerIds == {ServerIdOrder[i] : i \in DOMAIN ServerIdOrder}
Rank(id) == CHOOSE i \in DOMAIN ServerIdOrder : ServerIdOrder[i] = id

Request(op, id, status, body) ==
    [op |-> op, id |-> id, status |-> status, body |-> body]
NoRequest == Request("", <<>>, "", <<>>)

Event(type, request, outcome, data, file) ==
    [type |-> type, request |-> request, outcome |-> outcome,
     data |-> data, file |-> file]
UserEvent(type, request) == Event(type, request, "", <<>>, "")
Settled(request, outcome, data) == Event("response", request, outcome, data, "")

Ids(ls) == {ls[i].id : i \in DOMAIN ls}

\* JSON bodies of POST /leads: the posted lead, under the id it was posted
\* with or under an id the server has handed out to no lead held so far.
SavedLeads(body, held) ==
    {[body EXCEPT !.id = sid] : sid \in {body.id} \cup (ServerIds \ Ids(held))}

\* JSON bodies of POST /extract-lead: absent fields are the empty string.
ExtractData(id, name, email, phone) == Lead(id, name, email, phone, "", "")
ExtractResults ==
    {ExtractData(<<>>, <<>>, <<>>, <<>>),
     ExtractData(toString(1), <<"a">>, <<"a">>, <<>>)}

\* JSON bodies of GET /leads: lists of stored leads with pairwise distinct
\* ids, in the order of the store.
RemoteLeads ==
    {Lead(id, <<"a">>, <<"a">>, <<>>, st, "Manual") :
        id \in ServerIds, st \in Statuses}
UniqueIds(ls) == \A i, j \in DOMAIN ls : ls[i].id = ls[j].id => i = j
InStoreOrder(ls) ==
    \A i, j \in DOMAIN ls : i < j => Rank(ls[i].id) < Rank(ls[j].id)
RemoteLists ==
    {ls \in UNION {[1..n -> RemoteLeads] : n \in 0..MaxRemote} :
        UniqueIds(ls) /\ InStoreOrder(ls)}

Issue(request) == pending (+) SetToBag({request})
Settle(request) == pending (-) SetToBag({request})
InFlight(ops) ==
    BagCardinality([r \in {x \in BagToSet(pending) : x.op \in ops} |-> pending[r]])
FormOps == {"POST", "EXTRACT"}
DashboardOps == {"GET", "PUT", "DELETE"}

(***************************************************************************)
(* Initial state: both components mounted; the dashboard's mount effect    *)
(* has called refreshLeads(), whose GET is in flight.                      *)
(***************************************************************************)
Init ==
    /\ indexLeads = <<>>
    /\ formData = EmptyForm
    /\ uploadedFile = NoFile
    /\ isProcessing = FALSE
    /\ leads = <<>>
    /\ renderError = FALSE
    /\ filter = "All"
    /\ toast = NoToast
    /\ pending = SetToBag({Request("GET", <<>>, "", <<>>)})
    /\ now = 1
    /\ event = UserEvent("mount", Request("GET", <<>>, "", <<>>))
    /\ modalMounted = FALSE
    /\ isOpen = FALSE
    /\ leadName = <<>>
    /\ messages = <<>>
    /\ inputMessage = <<>>
    /\ loading = FALSE
    /\ abortControllerRef = 0
    /\ aborted = {}
    /\ streams = <<>>

\* A render that throws unmounts the tree: no handler runs afterwards.
Mounted == ~renderError

(***************************************************************************)
(* LeadCreationForm.                                                       *)
(***************************************************************************)
handleInputChange(field, value) ==
    /\ Mounted
    /\ UNCHANGED chatVars
    /\ formData' = [formData EXCEPT ![field] = value]
    /\ toast' = NoToast
    /\ event' = UserEvent("input", NoRequest)
    /\ UNCHANGED <<indexLeads, uploadedFile, isProcessing, leads, renderError,
                   filter, pending, now>>

\* The check of the email left out.
MissingInput_NameOnly(form) == ~Truthy(form.name)

\* !formData.name || !formData.email
MissingInput(form) == ~Truthy(form.name) \/ ~Truthy(form.email)

\* handleSubmit up to its first await.
handleSubmit ==
    /\ Mounted
    /\ UNCHANGED chatVars
    /\ IF MissingInput(formData)
       THEN /\ toast' = MissingInformation
            /\ event' = UserEvent("submit", NoRequest)
            /\ UNCHANGED pending
       ELSE LET newLead == Lead(toString(now), formData.name, formData.email,
                                formData.phone, "New", "Manual")
                request == Request("POST", <<>>, "", <<newLead>>)
            IN  /\ Len(indexLeads) + InFlight(FormOps) < MaxLeads
                /\ pending' = Issue(request)
                /\ toast' = NoToast
                /\ event' = UserEvent("submit", request)
    /\ UNCHANGED <<indexLeads, formData, uploadedFile, isProcessing, leads,
                   renderError, filter, now>>

\* handleSubmit from the settlement of its fetch to its end.
handleSubmitSettled(request, outcome, savedLead) ==
    /\ Mounted
    /\ UNCHANGED chatVars
    /\ BagIn(request, pending)
    /\ request.op = "POST"
    /\ IF ~Rejected(outcome) /\ ResponseOk(outcome) /\ JsonBody(outcome)
       THEN /\ indexLeads' = handleLeadAdded(indexLeads, savedLead)
            /\ toast' = LeadAdded
            /\ event' = Settled(request, outcome, <<savedLead>>)
       ELSE /\ toast' = SaveFailed
            /\ event' = Settled(request, outcome, <<>>)
            /\ UNCHANGED indexLeads
    /\ formData' = EmptyForm
    /\ pending' = Settle(request)
    /\ UNCHANGED <<uploadedFile, isProcessing, leads, renderError, filter, now>>

\* handleFileUpload up to its first await.
handleFileUpload(file) ==
    /\ Mounted
    /\ UNCHANGED chatVars
    /\ IF file = NoFile
       THEN /\ toast' = NoToast
            /\ event' = Event("upload", NoRequest, "", <<>>, file)
            /\ UNCHANGED <<uploadedFile, isProcessing, pending>>
       ELSE IF file \notin allowedTypes
       THEN /\ toast' = InvalidFileType
            /\ event' = Event("upload", NoRequest, "", <<>>, file)
            /\ UNCHANGED <<uploadedFile, isProcessing, pending>>
       ELSE LET request == Request("EXTRACT", <<>>, "", <<>>)
            IN  /\ Len(indexLeads) + InFlight(FormOps) < MaxLeads
                /\ uploadedFile' = file
                /\ isProcessing' = TRUE
                /\ pending' = Issue(request)
                /\ toast' = NoToast
                /\ event' = Event("upload", request, "", <<>>, file)
    /\ UNCHANGED <<indexLeads, formData, leads, renderError, filter, now>>

ExtractedLead_Manual(data, t) ==
    Lead(OrElse(data.id, toString(t)), OrElse(data.name, <<>>),
         OrElse(data.email, <<>>), OrElse(data.phone, <<>>), "New", "Manual")

\* The lead handleFileUpload builds from the extraction result at time t.
ExtractedLead(data, t) ==
    Lead(OrElse(data.id, toString(t)), OrElse(data.name, <<>>),
         OrElse(data.email, <<>>), OrElse(data.phone, <<>>), "New", "Document")

\* setIsProcessing(false) called at the end of the try block only.
handleFileUploadSettled_FlagInTry(request, outcome, data) ==
    /\ Mounted
    /\ UNCHANGED chatVars
    /\ BagIn(request, pending)
    /\ request.op = "EXTRACT"
    /\ IF ~Rejected(outcome) /\ ResponseOk(outcome) /\ JsonBody(outcome)
       THEN LET newLead == ExtractedLead(data, now)
            IN  /\ indexLeads' = handleLeadAdded(indexLeads, newLead)
                /\ formData' = EmptyForm
                /\ uploadedFile' = NoFile
                /\ isProcessing' = FALSE
                /\ toast' = LeadExtracted
                /\ event' = Settled(request, outcome, <<data>>)
       ELSE /\ toast' = ExtractionFailed
            /\ event' = Settled(request, outcome, <<>>)
            /\ UNCHANGED <<indexLeads, formData, uploadedFile, isProcessing>>
    /\ pending' = Settle(request)
    /\ UNCHANGED <<leads, renderError, filter, now>>

\* handleFileUpload from the settlement of its fetch to its end.
handleFileUploadSettled(request, outcome, data) ==
    /\ Mounted
    /\ UNCHANGED chatVars
    /\ BagIn(request, pending)
    /\ request.op = "EXTRACT"
    /\ IF ~Rejected(outcome) /\ ResponseOk(outcome) /\ JsonBody(outcome)
       THEN LET newLead == ExtractedLead(data, now)
            IN  /\ indexLeads' = handleLeadAdded(indexLeads, newLead)
                /\ formData' = EmptyForm
                /\ uploadedFile' = NoFile
                /\ toast' = LeadExtracted
                /\ event' = Settled(request, outcome, <<data>>)
       ELSE /\ toast' = ExtractionFailed
            /\ event' = Settled(request, outcome, <<>>)
            /\ UNCHANGED <<indexLeads, formData, uploadedFile>>
    /\ isProcessing' = FALSE
    /\ pending' = Settle(request)
    /\ UNCHANGED <<leads, renderError, filter, now>>

(***************************************************************************)
(* LeadDashboard.                                                          *)
(***************************************************************************)
\* refreshLeads up to its first await.
refreshLeads ==
    /\ Mounted
    /\ UNCHANGED chatVars
    /\ InFlight(DashboardOps) < MaxPending
    /\ pending' = Issue(Request("GET", <<>>, "", <<>>))
    /\ toast' = NoToast
    /\ event' = UserEvent("refresh", Request("GET", <<>>, "", <<>>))
    /\ UNCHANGED <<indexLeads, formData, uploadedFile, isProcessing, leads,
                   renderError, filter, now>>

\* refreshLeads from the settlement of its fetch to its end.  The status of
\* the response is not looked at: the body of a non-2xx response, a JSON
\* object, is handed to setLeads like a list; it holds no lead, and the next
\* render throws at leads.filter.
refreshLeadsSettled(request, outcome, data) ==
    /\ Mounted
    /\ UNCHANGED chatVars
    /\ BagIn(request, pending)
    /\ request.op = "GET"
    /\ CASE ~Rejected(outcome) /\ JsonBody(outcome) /\ ResponseOk(outcome) ->
              /\ leads' = data
              /\ toast' = LeadsRefreshed
              /\ event' = Settled(request, outcome, data)
              /\ UNCHANGED renderError
         [] ~Rejected(outcome) /\ JsonBody(outcome) /\ ~ResponseOk(outcome) ->
              /\ leads' = <<>>
              /\ renderError' = TRUE
              /\ toast' = LeadsRefreshed
              /\ event' = Settled(request, outcome, <<>>)
         [] OTHER ->
              /\ toast' = LoadFailed
              /\ event' = Settled(request, outcome, <<>>)
              /\ UNCHANGED <<leads, renderError>>
    /\ pending' = Settle(request)
    /\ UNCHANGED <<indexLeads, formData, uploadedFile, isProcessing, filter, now>>

\* handleStatusUpdate up to its first await.
handleStatusUpdate(leadId, newStatus) ==
    /\ Mounted
    /\ UNCHANGED chatVars
    /\ InFlight(DashboardOps) < MaxPending
    /\ leads' = onLeadUpdated(leads, leadId, newStatus)
    /\ pending' = Issue(Request("PUT", leadId, newStatus, <<>>))
    /\ toast' = NoToast
    /\ event' = UserEvent("statusUpdate", Request("PUT", leadId, newStatus, <<>>))
    /\ UNCHANGED <<indexLeads, formData, uploadedFile, isProcessing,
                   renderError, filter, now>>

\* handleStatusUpdate from the settlement of its fetch to its end: only a
\* rejected fetch reaches the catch block.
handleStatusUpdateSettled(request, outcome) ==
    /\ Mounted
    /\ UNCHANGED chatVars
    /\ BagIn(request, pending)
    /\ request.op = "PUT"
    /\ toast' = IF Rejected(outcome) THEN StatusUpdateFailed ELSE StatusUpdated
    /\ event' = Settled(request, outcome, <<>>)
    /\ pending' = Settle(request)
    /\ UNCHANGED <<indexLeads, formData, uploadedFile, isProcessing, leads,
                   renderError, filter, now>>

\* handleDelete up to its first await.
handleDelete(leadId) ==
    /\ Mounted
    /\ UNCHANGED chatVars
    /\ InFlight(DashboardOps) < MaxPending
    /\ leads' = onLeadDeleted(leads, leadId)
    /\ pending' = Issue(Request("DELETE", leadId, "", <<>>))
    /\ toast' = NoToast
    /\ event' = UserEvent("delete", Request("DELETE", leadId, "", <<>>))
    /\ UNCHANGED <<indexLeads, formData, uploadedFile, isProcessing,
                   renderError, filter, now>>

\* handleDelete from the settlement of its fetch to its end.
handleDeleteSettled(request, outcome) ==
    /\ Mounted
    /\ UNCHANGED chatVars
    /\ BagIn(request, pending)
    /\ request.op = "DELETE"
    /\ toast' = IF Rejected(outcome) THEN DeleteFailed ELSE LeadDeleted
    /\ event' = Settled(request, outcome, <<>>)
    /\ pending' = Settle(request)
    /\ UNCHANGED <<indexLeads, formData, uploadedFile, isProcessing, leads,
                   renderError, filter, now>>

setFilter(filterOption) ==
    /\ Mounted
    /\ UNCHANGED chatVars
    /\ filter' = filterOption
    /\ toast' = NoToast
    /\ event' = UserEvent("setFilter", NoRequest)
    /\ UNCHANGED <<indexLeads, formData, uploadedFile, isProcessing, leads,
                   renderError, pending, now>>

\* The rows of the table carry the two mutating menu items.
ClickToggleStatus ==
    \E i \in DOMAIN filteredLeads(leads, filter) :
        LET lead == filteredLeads(leads, filter)[i]
        IN  handleStatusUpdate(lead.id, ToggleStatus(lead.status))

ClickDelete ==
    \E i \in DOMAIN filteredLeads(leads, filter) :
        handleDelete(filteredLeads(leads, filter)[i].id)

(***************************************************************************)
(* LeadInteractionModal: the chat session of one lead.  The component is   *)
(* driven by its props (isOpen, lead), by the input box and the Send       *)
(* button, and by the streams it started: each call of streamChatGPT       *)
(* delivers chunks to its callback and then resolves or rejects.           *)
(***************************************************************************)
ChatMessage(id, text, sender, timestamp) ==
    [id |-> id, text |-> text, sender |-> sender, timestamp |-> timestamp]

WelcomeId == <<"w", "e", "l", "c", "o", "m", "e">>
UserId(t) == <<"u", "s", "e", "r", "-">> \o toString(t)
AiId(t) == <<"a", "i", "-">> \o toString(t)

\* The welcome text is a fixed sentence around the lead's name; the fixed
\* part is shortened here.
Greeting(name) == <<"H", "i", " ">> \o name \o <<"?">>
FailureNotice == <<"A", "I", " ", "f", "a", "i", "l", "e", "d">>

LeadNames == {<<>>, <<"a">>}
InputMessages == {<<>>, <<" ">>, <<"q">>}
\* The answer the chat resource streams, chunk by chunk.
Answer == <<(<<"x">>), (<<"y">>)>>

\* How a call of streamChatGPT ends: it resolves, or it rejects with an
\* Error that is or is not an AbortError.
StreamOutcomes == {"done", "Error", "AbortError"}

\* The cancellation token a stream was handed; NoToken when it was handed
\* none.  A stream stops delivering once its token is cancelled.
NoToken == 0
Cancelled(token) == token # NoToken /\ token \in aborted

\* The token handleSendMessage hands to streamChatGPT for the controller it
\* created: the call passes the prompt and the callback only.
TokenPassed(controller) == NoToken

\* A call of streamChatGPT: the id of the placeholder its callback writes
\* to and the index at which the placeholder was appended, the text
\* accumulated in the closure, the number of chunks delivered, whether the component instance that started
\* it was unmounted (orphan: its closure can no longer be observed), and
\* whether it was started in the session that is open now (current).
Stream(aiMessageId, placeholder, token) ==
    [aiMessageId |-> aiMessageId, placeholder |-> placeholder,
     streamedText |-> <<>>, chunks |-> 0, token |-> token,
     state |-> "running", orphan |-> FALSE, current |-> TRUE]

Running(i) == streams[i].state = "running"

\* A call that has settled: its closure is no longer reachable.
Ended(stream) ==
    [aiMessageId |-> <<>>, placeholder |-> 0, streamedText |-> <<>>,
     chunks |-> 0, token |-> NoToken, state |-> "ended", orphan |-> FALSE,
     current |-> stream.current]

\* setMessages(prev => prev.map(msg => msg.id === id ? {...msg, text} : msg))
ReplaceText(prev, id, text) ==
    [i \in DOMAIN prev |->
        IF prev[i].id = id THEN [prev[i] EXCEPT !.text = text] ELSE prev[i]]

\* if (abortControllerRef.current) abortControllerRef.current.abort()
\* Only the controllers of running calls are kept: nothing holds the others.
Abort(ref) ==
    IF ref # 0 /\ Running(ref) THEN aborted \cup {ref} ELSE aborted

EndSession(ss) ==
    [i \in DOMAIN ss |-> [ss[i] EXCEPT !.current = FALSE, !.placeholder = 0]]
Orphan(ss) ==
    [i \in DOMAIN ss |->
        IF ss[i].state = "running"
        THEN [ss[i] EXCEPT !.current = FALSE, !.orphan = TRUE,
                           !.aiMessageId = <<>>, !.placeholder = 0,
                           !.streamedText = <<>>, !.chunks = 0]
        ELSE [ss[i] EXCEPT !.current = FALSE]]

\* The steps of the chat session handle no event of the lead store; a Send
\* that handleSendMessage refused is the one step that would otherwise leave
\* no trace.
NoEvent == UserEvent("", NoRequest)
SendRefusedEvent == UserEvent("sendRefused", NoRequest)

modalEffect_KeepLoading(open, name) ==
    IF open /\ Truthy(name)
    THEN /\ messages' = <<ChatMessage(WelcomeId, Greeting(name), "ai", now)>>
         /\ UNCHANGED <<inputMessage, loading, abortControllerRef, aborted>>
    ELSE IF ~open
    THEN /\ messages' = <<>>
         /\ inputMessage' = <<>>
         /\ aborted' = Abort(abortControllerRef)
         /\ abortControllerRef' = 0
         /\ UNCHANGED loading
    ELSE UNCHANGED <<messages, inputMessage, loading, abortControllerRef,
                     aborted>>

\* The effect on [isOpen, lead?.name].
modalEffect(open, name) ==
    IF open /\ Truthy(name)
    THEN /\ messages' = <<ChatMessage(WelcomeId, Greeting(name), "ai", now)>>
         /\ UNCHANGED <<inputMessage, loading, abortControllerRef, aborted>>
    ELSE IF ~open
    THEN /\ messages' = <<>>
         /\ inputMessage' = <<>>
         /\ loading' = FALSE
         /\ aborted' = Abort(abortControllerRef)
         /\ abortControllerRef' = 0
    ELSE UNCHANGED <<messages, inputMessage, loading, abortControllerRef,
                     aborted>>

\* LeadDashboard sets selectedLead: the modal is mounted open, with fresh
\* state, and its effect runs.
mountModal(name) ==
    /\ ~modalMounted
    /\ modalMounted' = TRUE
    /\ isOpen' = TRUE
    /\ leadName' = name
    /\ modalEffect(TRUE, name)
    /\ streams' = EndSession(streams)
    /\ toast' = NoToast
    /\ event' = NoEvent
    /\ UNCHANGED <<storeVars, now>>

\* The parent renders the mounted modal with another isOpen: the effect
\* runs when isOpen differs from the last render.  The lead prop is the
\* selectedLead the modal was mounted for.  Rendering the modal closed
\* again is the one re-render with equal props kept as a step.
render(open) ==
    /\ modalMounted
    /\ open => ~isOpen
    /\ isOpen' = open
    /\ IF open # isOpen
       THEN /\ modalEffect(open, leadName)
            /\ streams' = EndSession(streams)
       ELSE UNCHANGED <<messages, inputMessage, loading, abortControllerRef,
                        aborted, streams>>
    /\ toast' = NoToast
    /\ event' = NoEvent
    /\ UNCHANGED <<storeVars, now, modalMounted, leadName>>

\* onClose sets selectedLead to null: the modal is unmounted, its cleanup
\* runs and its state is discarded; setters called later by its streams do
\* nothing.  The variables hold what the next mount starts from.
unmountModal ==
    /\ modalMounted
    /\ modalMounted' = FALSE
    /\ aborted' = Abort(abortControllerRef)
    /\ isOpen' = FALSE
    /\ leadName' = <<>>
    /\ messages' = <<>>
    /\ inputMessage' = <<>>
    /\ loading' = FALSE
    /\ abortControllerRef' = 0
    /\ streams' = Orphan(streams)
    /\ toast' = NoToast
    /\ event' = NoEvent
    /\ UNCHANGED <<storeVars, now>>

\* onChange of the input box, which is disabled while loading.
setInputMessage(value) ==
    /\ modalMounted
    /\ isOpen
    /\ ~loading
    /\ inputMessage' = value
    /\ toast' = NoToast
    /\ event' = NoEvent
    /\ UNCHANGED <<storeVars, now, modalMounted, isOpen, leadName, messages,
                   loading, abortControllerRef, aborted, streams>>

SendRefused_LoadingOnly(text, busy) == busy

\* if (!inputMessage.trim() || loading) return
SendRefused(text, busy) == ~Truthy(Trim(text)) \/ busy

\* handleSendMessage up to its await.
handleSendMessage ==
    /\ modalMounted
    /\ isOpen
    /\ IF SendRefused(inputMessage, loading)
       THEN /\ event' = SendRefusedEvent
            /\ UNCHANGED <<messages, inputMessage, loading,
                           abortControllerRef, aborted, streams>>
       ELSE LET controller == Len(streams) + 1
                userMessage ==
                    ChatMessage(UserId(now), inputMessage, "user", now)
                newAIMessage == ChatMessage(AiId(now), <<>>, "ai", now)
            IN  /\ Len(streams) < MaxStreams
                /\ aborted' = Abort(abortControllerRef)
                /\ messages' = messages \o <<userMessage, newAIMessage>>
                /\ inputMessage' = <<>>
                /\ loading' = TRUE
                /\ abortControllerRef' = controller
                /\ streams' = Append(streams,
                                     Stream(AiId(now), Len(messages) + 2,
                                            TokenPassed(controller)))
                /\ event' = NoEvent
    /\ toast' = NoToast
    /\ UNCHANGED <<storeVars, now, modalMounted, isOpen, leadName>>

\* The callback handed to streamChatGPT, called with the next chunk.
\* streamedText += chunk
onChunk_Append(text, chunk) == text \o chunk

\* A chunk delivered to an instance that was unmounted changes nothing that
\* can be observed and is no step.
onChunk(i) ==
    /\ Running(i)
    /\ ~streams[i].orphan
    /\ ~Cancelled(streams[i].token)
    /\ streams[i].chunks < Len(Answer)
    /\ LET chunk == Answer[streams[i].chunks + 1]
           streamedText == onChunk_Append(streams[i].streamedText, chunk)
       IN  /\ streams' = [streams EXCEPT ![i].streamedText = streamedText,
                                          ![i].chunks = @ + 1]
           /\ messages' = ReplaceText(messages, streams[i].aiMessageId,
                                      streamedText)
           /\ event' = NoEvent
    /\ toast' = NoToast
    /\ UNCHANGED <<storeVars, now, modalMounted, isOpen, leadName,
                   inputMessage, loading, abortControllerRef, aborted>>

ShowsFailure_AnyError(outcome) == outcome # "done"

\* err instanceof Error && err.name !== 'AbortError'
ShowsFailure(outcome) == outcome = "Error"

\* handleSendMessage from the settlement of streamChatGPT to its end: the
\* catch block and the finally block.
streamSettled(i, outcome) ==
    /\ Running(i)
    /\ streams' = [streams EXCEPT ![i] = Ended(streams[i])]
    /\ aborted' = aborted \ {i}
    /\ IF streams[i].orphan
       THEN UNCHANGED <<messages, loading, abortControllerRef>>
       ELSE /\ messages' = IF ShowsFailure(outcome)
                           THEN ReplaceText(messages, streams[i].aiMessageId,
                                            FailureNotice)
                           ELSE messages
            /\ loading' = FALSE
            /\ abortControllerRef' = 0
    /\ toast' = NoToast
    /\ event' = NoEvent
    /\ UNCHANGED <<storeVars, now, modalMounted, isOpen, leadName,
                   inputMessage>>

(***************************************************************************)
(* The clock.                                                              *)
(***************************************************************************)
Tick ==
    /\ now < MaxNow
    /\ UNCHANGED chatVars
    /\ now' = now + 1
    /\ toast' = NoToast
    /\ event' = NoEvent
    /\ UNCHANGED <<indexLeads, formData, uploadedFile, isProcessing, leads,
                   renderError, filter, pending>>

(***************************************************************************)
(* Specifications.  The form with the Index collection and the dashboard   *)
(* share no state: each is explored on its own.                            *)
(***************************************************************************)
Submit == handleSubmit

SubmitSettled ==
    \E request \in BagToSet(pending), outcome \in Outcomes :
        /\ request.op = "POST"
        /\ \E savedLead \in IF ResponseOk(outcome)
                             THEN SavedLeads(request.body[1], indexLeads)
                             ELSE {request.body[1]} :
              handleSubmitSettled(request, outcome, savedLead)

FileUploadSettled ==
    \E request \in BagToSet(pending), outcome \in Outcomes :
        /\ request.op = "EXTRACT"
        /\ \E data \in IF ResponseOk(outcome) THEN ExtractResults
                        ELSE {ExtractData(<<>>, <<>>, <<>>, <<>>)} :
              handleFileUploadSettled(request, outcome, data)

RefreshSettled ==
    \E request \in BagToSet(pending), outcome \in Outcomes :
        /\ request.op = "GET"
        /\ \E data \in IF ResponseOk(outcome) THEN RemoteLists ELSE {<<>>} :
              refreshLeadsSettled(request, outcome, data)

StatusUpdateSettled ==
    \E request \in BagToSet(pending), outcome \in Outcomes :
        handleStatusUpdateSettled(request, outcome)

DeleteSettled ==
    \E request \in BagToSet(pending), outcome \in Outcomes :
        handleDeleteSettled(request, outcome)

NextForm ==
    \/ \E field \in Fields : \E value \in InputValues(field) :
          handleInputChange(field, value)
    \/ Submit
    \/ SubmitSettled
    \/ \E file \in FileTypes \cup {NoFile} : handleFileUpload(file)
    \/ FileUploadSettled
    \/ Tick

NextDashboard ==
    \/ refreshLeads
    \/ RefreshSettled
    \/ ClickToggleStatus
    \/ StatusUpdateSettled
    \/ ClickDelete
    \/ DeleteSettled
    \/ \E filterOption \in Filters : setFilter(filterOption)

NextChat ==
    \/ \E name \in LeadNames : mountModal(name)
    \/ \E open \in BOOLEAN : render(open)
    \/ unmountModal
    \/ \E value \in InputMessages : setInputMessage(value)
    \/ handleSendMessage
    \/ \E i \in DOMAIN streams : onChunk(i)
    \/ \E i \in DOMAIN streams, outcome \in StreamOutcomes :
          streamSettled(i, outcome)
    \/ Tick

SpecForm == Init /\ [][NextForm]_vars

SpecChat == Init /\ [][NextChat]_vars

SpecDashboard == Init /\ [][NextDashboard]_vars

(***************************************************************************)
(* Properties.  A step is told apart by the event it handled: event' is    *)
(* the event of the step, the unprimed variables are the state it met.     *)
(***************************************************************************)
SettledStep(op) == event'.type = "response" /\ event'.request.op = op

\* C1: a create() of a valid draft changes the Index collection in one of
\* two ways only: when the remote create succeeds, the lead the server
\* returned is put at index 0 in front of the leads held before, which keep
\* their order; when it fails the collection is unchanged.  Submitting inserts
\* nothing: the provisional lead built on the client never enters the
\* collection.
C1_CreateAddsServerLeadOrNothing ==
    [][/\ event'.type = "submit" => indexLeads' = indexLeads
       /\ SettledStep("POST") =>
            IF RemoteFailed(event'.outcome)
            THEN indexLeads' = indexLeads
            ELSE /\ Len(indexLeads') = Len(indexLeads) + 1
                 /\ indexLeads'[1] = event'.data[1]
                 /\ \A i \in DOMAIN indexLeads : indexLeads'[i + 1] = indexLeads[i]]_vars

\* A successful create whose server-assigned id differs from the provisional
\* one has put the returned lead in front of a lead held before.
C1_Witness ==
    /\ event.type = "response"
    /\ event.request.op = "POST"
    /\ event.outcome = "ok"
    /\ Len(indexLeads) = 2
    /\ indexLeads[1] = event.data[1]
    /\ indexLeads[1].id # event.request.body[1].id

\* C2: a create() of a draft whose name or email is the empty string reports
\* InvalidInput ("Missing Information"), leaves both collections unchanged
\* and issues no fetch.
C2_EmptyDraftRejected ==
    [][(event'.type = "submit" /\ (formData.name = <<>> \/ formData.email = <<>>)) =>
            /\ toast' = MissingInformation
            /\ indexLeads' = indexLeads
            /\ leads' = leads
            /\ pending' = pending]_vars

\* A submit of a draft with a name and no email was refused.
C2_Witness ==
    /\ event.type = "submit"
    /\ event.request = NoRequest
    /\ toast = MissingInformation
    /\ formData.name = <<"a">>
    /\ formData.email = <<>>

\* C3: create() validates after trimming: a draft whose name or email is
\* made of whitespace only is rejected as InvalidInput, with no fetch issued
\* and no lead added.
C3_WhitespaceDraftRejected ==
    [][(event'.type = "submit"
            /\ (Trim(formData.name) = <<>> \/ Trim(formData.email) = <<>>)) =>
            /\ toast' = MissingInformation
            /\ indexLeads' = indexLeads
            /\ pending' = pending]_vars

\* A failure notification: the destructive "Error" toast of a catch block.
FailureReported(t) == t.title = "Error" /\ t.variant = "destructive"

\* C4: updateStatus(id, s) sets the status of lead id to s at once, with the
\* remote update still in flight, and changes nothing else: the other leads,
\* the other fields, the membership and the order stay; when the remote
\* update then fails, the status stays s and a failure is reported.
C4_OptimisticStatusUpdate ==
    [][/\ event'.type = "statusUpdate" =>
            /\ Len(leads') = Len(leads)
            /\ \A i \in DOMAIN leads :
                  leads'[i] = IF leads[i].id = event'.request.id
                              THEN [leads[i] EXCEPT !.status = event'.request.status]
                              ELSE leads[i]
            /\ BagIn(event'.request, pending')
       /\ (SettledStep("PUT") /\ RemoteFailed(event'.outcome)) =>
            /\ leads' = leads
            /\ FailureReported(toast')]_vars

\* C5: delete(id) removes the lead at once, with the remote delete still in
\* flight, and keeps the other leads in their order; when the remote delete
\* then fails, the lead stays removed and the failure is reported.
C5_OptimisticDelete ==
    [][/\ event'.type = "delete" =>
            /\ leads' = SelectSeq(leads, LAMBDA l : l.id # event'.request.id)
            /\ BagIn(event'.request, pending')
       /\ (SettledStep("DELETE") /\ RemoteFailed(event'.outcome)) =>
            /\ leads' = leads
            /\ FailureReported(toast')]_vars

\* C6: when a refresh() succeeds the dashboard collection becomes exactly the
\* list the remote returned, whatever it held; when the remote read fails the
\* collection is left as it was and the failure is reported.
C6_RefreshReplacesOrKeeps ==
    [][SettledStep("GET") =>
            IF RemoteFailed(event'.outcome)
            THEN /\ leads' = leads
                 /\ renderError' = renderError
                 /\ FailureReported(toast')
            ELSE leads' = event'.data]_vars

\* C7: in every reachable state no two leads of a collection have the same id.
C7_UniqueIds == UniqueIds(indexLeads) /\ UniqueIds(leads)

\* C8 as claimed: a lead leaves a collection only through a delete(id) of
\* that lead; no other operation and no remote response removes a lead.
C8_OnlyDeleteRemoves ==
    [][/\ Ids(indexLeads) \subseteq Ids(indexLeads')
       /\ \A id \in Ids(leads) \ Ids(leads') :
            event'.type = "delete" /\ event'.request.id = id]_vars

\* C8 as amended: a lead leaves a collection only through a delete(id) of
\* that lead or through a refresh() whose response body, which replaces the
\* collection, does not hold it; no other operation and no other remote
\* response removes a lead.
C8_OnlyDeleteOrRefreshRemoves ==
    [][/\ Ids(indexLeads) \subseteq Ids(indexLeads')
       /\ \A id \in Ids(leads) \ Ids(leads') :
            \/ event'.type = "delete" /\ event'.request.id = id
            \/ /\ SettledStep("GET")
               /\ JsonBody(event'.outcome)
               /\ id \notin Ids(event'.data)]_vars

\* A delete has taken its lead out of a collection that still holds another.
C8_Witness ==
    /\ event.type = "delete"
    /\ event.request.id \notin Ids(leads)
    /\ leads # <<>>

RECURSIVE IsSubsequence(_, _)
IsSubsequence(a, b) ==
    IF a = <<>> THEN TRUE
    ELSE IF b = <<>> THEN FALSE
    ELSE IF Head(a) = Head(b) THEN IsSubsequence(Tail(a), Tail(b))
    ELSE IsSubsequence(a, Tail(b))

Range(ls) == {ls[i] : i \in DOMAIN ls}

FilterPartitions(ls) ==
    LET all == filteredLeads(ls, "All")
        new == filteredLeads(ls, "New")
        contacted == filteredLeads(ls, "Contacted")
    IN  /\ all = ls
        /\ Len(all) = Len(ls)
        /\ Range(new) \cap Range(contacted) = {}
        /\ Range(new) \cup Range(contacted) = Range(ls)
        /\ Len(new) + Len(contacted) = Len(ls)
        /\ IsSubsequence(new, ls)
        /\ IsSubsequence(contacted, ls)

\* C9: for a collection of New and Contacted leads, filter(All) is the whole
\* collection, filter(New) and filter(Contacted) are disjoint and together
\* hold every lead, each view keeps the stored order, and choosing a filter
\* does not change the stored collection.
C9_FilterPartitions ==
    [][/\ ((leads' # leads \/ event'.type = "setFilter")
              /\ \A i \in DOMAIN leads' : leads'[i].status \in Statuses) =>
            FilterPartitions(leads')
       /\ event'.type = "setFilter" => leads' = leads]_vars

\* The "New" view is shown of a collection that holds leads of both statuses.
C9_Witness ==
    /\ event.type = "setFilter"
    /\ filter = "New"
    /\ Len(leads) >= 2
    /\ filteredLeads(leads, "New") # <<>>
    /\ filteredLeads(leads, "Contacted") # <<>>

\* C10: createFromDocument(file) with a media type other than
\* application/pdf reports UnsupportedFileType ("Invalid File Type"), issues
\* no fetch, does not touch the extraction-in-progress flag and leaves the
\* collections unchanged.
C10_NonPdfRejected ==
    [][(event'.type = "upload" /\ event'.file \notin {NoFile, PdfType}) =>
            /\ toast' = InvalidFileType
            /\ pending' = pending
            /\ isProcessing' = isProcessing
            /\ uploadedFile' = uploadedFile
            /\ indexLeads' = indexLeads
            /\ leads' = leads]_vars

\* A text file was refused while no extraction was in progress.
C10_Witness ==
    /\ event.type = "upload"
    /\ event.file = "text/plain"
    /\ toast = InvalidFileType
    /\ ~isProcessing

\* C11: an accepted createFromDocument (a PDF handed to handleFileUpload)
\* sets the extraction-in-progress flag; the step that handles the
\* settlement of its extraction call leaves the flag false, on success and
\* on failure alike; on failure the Index collection is unchanged, on
\* success exactly one lead with source Document and status New is put at
\* index 0 in front of the leads held before.
C11_ExtractionFlagReleased ==
    [][/\ (event'.type = "upload" /\ event'.request.op = "EXTRACT") =>
            isProcessing'
       /\ SettledStep("EXTRACT") =>
            /\ ~isProcessing'
            /\ RemoteFailed(event'.outcome) => indexLeads' = indexLeads
            /\ ~RemoteFailed(event'.outcome) =>
                  /\ Len(indexLeads') = Len(indexLeads) + 1
                  /\ Tail(indexLeads') = indexLeads
                  /\ Head(indexLeads').source = "Document"
                  /\ Head(indexLeads').status = "New"]_vars

\* An extraction has failed after an earlier one put its lead at the head,
\* and the flag is clear.
C11_Witness ==
    /\ event.type = "response"
    /\ event.request.op = "EXTRACT"
    /\ RemoteFailed(event.outcome)
    /\ ~isProcessing
    /\ indexLeads # <<>>
    /\ Head(indexLeads).source = "Document"

(***************************************************************************)
(* Properties of the chat session.                                         *)
(***************************************************************************)
\* A step of the chat session is told apart by the action it is a step of.
OpenStep == (\E name \in LeadNames : mountModal(name)) \/ render(TRUE)
CloseStep == render(FALSE)
SendAccepted == handleSendMessage /\ ~SendRefused(inputMessage, loading)

ActiveStreams == {i \in DOMAIN streams : Running(i)}

\* C13: at most one stream started by handleSendMessage is running at any
\* time, and every accepted send, every close and every unmount leaves each
\* stream that was running before the step no longer running.
C13_AtMostOneActiveStream ==
    [][/\ Cardinality(ActiveStreams') <= 1
       /\ (SendAccepted \/ CloseStep \/ unmountModal) =>
            \A i \in ActiveStreams : i \notin ActiveStreams']_vars

Cleared ==
    /\ messages = <<>>
    /\ inputMessage = <<>>
    /\ loading = FALSE
    /\ abortControllerRef = 0

\* C14: a close leaves loading false, the stream handle empty, the
\* transcript empty and the input buffer empty, also when a stream is
\* running; a close of the closed modal changes none of them, and they stay
\* so for as long as the modal is closed, whatever the streams do.
C14_CloseClears ==
    [][/\ CloseStep => Cleared'
       /\ (CloseStep /\ ~isOpen) =>
            UNCHANGED <<messages, inputMessage, loading, abortControllerRef>>
       /\ (modalMounted' /\ ~isOpen') => Cleared']_vars

\* The modal was closed while the stream it had started was running.
C14_Witness ==
    /\ modalMounted
    /\ ~isOpen
    /\ Cleared
    /\ \E i \in DOMAIN streams : Running(i) /\ ~streams[i].orphan /\ i \in aborted

Blank(text) == \A k \in DOMAIN text : text[k] \in Whitespace

\* C16: handleSendMessage called with an input that is empty or consists of
\* whitespace only, or called while loading is true, is a no-op: the
\* transcript, the loading flag and the stream handle are unchanged, no
\* stream is started and abort() is called on no controller.
C16_RefusedSendIsNoOp ==
    [][(handleSendMessage /\ (Blank(inputMessage) \/ loading)) =>
          UNCHANGED <<messages, loading, abortControllerRef, streams,
                      aborted>>]_vars

\* Send was pressed on an input of one blank, with earlier messages in the
\* transcript.
C16_Witness ==
    /\ event = SendRefusedEvent
    /\ inputMessage = <<" ">>
    /\ Len(messages) > 1

RECURSIVE Concatenation(_)
\* The first k chunks of the answer, concatenated in the order of arrival.
Concatenation(k) == IF k = 0 THEN <<>> ELSE Concatenation(k - 1) \o Answer[k]

\* C17: an accepted send appends one user message carrying the input and
\* then one AI placeholder with empty text, and sets loading; each chunk of
\* the stream leaves the placeholder's text equal to the concatenation of the
\* chunks received so far, its id, sender and timestamp unchanged and every
\* other message unchanged; when the stream completes the placeholder holds
\* the concatenation of all its chunks, loading is false and the handle is
\* cleared.
C17_SendStreamsIntoPlaceholder ==
    [][/\ SendAccepted =>
            /\ Len(messages') = Len(messages) + 2
            /\ SubSeq(messages', 1, Len(messages)) = messages
            /\ messages'[Len(messages) + 1].sender = "user"
            /\ messages'[Len(messages) + 1].text = inputMessage
            /\ messages'[Len(messages) + 2].sender = "ai"
            /\ messages'[Len(messages) + 2].text = <<>>
            /\ loading'
       /\ \A i \in DOMAIN streams :
            (onChunk(i) /\ streams[i].current) =>
                /\ DOMAIN messages' = DOMAIN messages
                /\ \A k \in DOMAIN messages :
                      IF k = streams[i].placeholder
                      THEN messages'[k] =
                              [messages[k] EXCEPT
                                  !.text = Concatenation(streams[i].chunks + 1)]
                      ELSE messages'[k] = messages[k]
       /\ \A i \in DOMAIN streams :
            (streamSettled(i, "done") /\ streams[i].current) =>
                /\ messages'[streams[i].placeholder].text =
                      Concatenation(streams[i].chunks)
                /\ ~loading'
                /\ abortControllerRef' = 0]_vars

\* C18: when a stream of the mounted modal ends with an error, loading is
\* false and the stream handle is cleared afterwards; if the error is a
\* cancellation (AbortError) the transcript, and so the partial text of the
\* placeholder, is left as it is and no failure notice appears; for every
\* other error the text of the stream's placeholder is the fixed failure
\* notice.
C18_StreamErrorHandled ==
    [][\A i \in DOMAIN streams : \A outcome \in StreamOutcomes \ {"done"} :
          (streamSettled(i, outcome) /\ ~streams[i].orphan) =>
              /\ ~loading'
              /\ abortControllerRef' = 0
              /\ outcome = "AbortError" => messages' = messages
              /\ (outcome = "Error" /\ streams[i].current) =>
                    /\ Len(messages') = Len(messages)
                    /\ messages'[streams[i].placeholder].text = FailureNotice]_vars

\* A stream failed with an error that is no cancellation: the last
\* placeholder shows the failure notice and loading is released.
C18_Witness ==
    /\ modalMounted
    /\ isOpen
    /\ ~loading
    /\ abortControllerRef = 0
    /\ messages # <<>>
    /\ messages[Len(messages)].text = FailureNotice

\* C19: open(lead) leaves the transcript holding exactly one message, the AI
\* greeting that names the lead, and issues no network call (no fetch and no
\* stream is started); a stream still running when open runs is cancelled:
\* none is running afterwards.
C19_OpenGreets ==
    [][OpenStep =>
          /\ Len(messages') = 1
          /\ messages'[1].sender = "ai"
          /\ messages'[1].text = Greeting(leadName')
          /\ pending' = pending
          /\ Len(streams') = Len(streams)
          /\ ActiveStreams' = {}]_vars

\* C20: every failed remote call of the lead resource is reported as a
\* failure: the step that handles a settlement whose fetch was rejected or
\* whose response is not ok hands a destructive error notification to
\* toast(), never a success notification and never none.
C20_RemoteFailureReported ==
    [][(event'.type = "response" /\ RemoteFailed(event'.outcome)) =>
          FailureReported(toast')]_vars

(***************************************************************************)
(* Progress.  The extraction of the form and the chat session, under the   *)
(* assumption that every call made is answered: the fetch of each          *)
(* extraction settles, and each call of streamChatGPT resolves or rejects. *)
(***************************************************************************)
NextLive ==
    \/ \E file \in FileTypes \cup {NoFile} : handleFileUpload(file)
    \/ FileUploadSettled
    \/ \E name \in LeadNames : mountModal(name)
    \/ \E open \in BOOLEAN : render(open)
    \/ unmountModal
    \/ \E value \in InputMessages : setInputMessage(value)
    \/ (SendRefused(inputMessage, loading) \/ Len(streams) < MaxLiveStreams)
          /\ handleSendMessage
    \/ \E i \in DOMAIN streams : onChunk(i)
    \/ \E i \in DOMAIN streams, outcome \in StreamOutcomes :
          streamSettled(i, outcome)

StreamEnds(i) ==
    \E outcome \in StreamOutcomes : i \in DOMAIN streams /\ streamSettled(i, outcome)

EveryCallSettles ==
    /\ WF_vars(FileUploadSettled)
    /\ \A i \in 1..MaxLiveStreams : WF_vars(StreamEnds(i))

SpecLive == Init /\ [][NextLive]_vars /\ EveryCallSettles

\* C21: provided every extraction call and every stream eventually completes
\* or fails, each state with loading true is eventually followed by a state
\* with loading false, and each state with isProcessing true is eventually
\* followed by one with isProcessing false.
C21_FlagsEventuallyCleared ==
    /\ loading ~> ~loading
    /\ isProcessing ~> ~isProcessing

\* Both flags are clear after a stream has failed and shown its notice and
\* after an extraction has failed: the file is still held and no lead was
\* added.
C21_Witness ==
    /\ ~loading
    /\ ~isProcessing
    /\ \E k \in DOMAIN messages : messages[k].text = FailureNotice
    /\ uploadedFile = PdfType
    /\ indexLeads = <<>>
    /\ InFlight(FormOps) = 0

(***************************************************************************)
(* Properties of concurrent calls of the dashboard.                        *)
(***************************************************************************)
StatusOf(ls, leadId) ==
    {ls[i].status : i \in {k \in DOMAIN ls : ls[k].id = leadId}}

\* C22: when two updateStatus calls for the same lead were in flight
\* together and both resolve, the local status of the lead is the one
\* carried by the call whose response arrived last: at the step that handles
\* the second of two consecutive successful PUT responses for one lead, the
\* lead, if held, has the status of that second response's call.
C22_LastResponseWins ==
    [][(/\ SettledStep("PUT")
        /\ ResponseOk(event'.outcome)
        /\ event.type = "response"
        /\ event.request.op = "PUT"
        /\ ResponseOk(event.outcome)
        /\ event.request.id = event'.request.id) =>
          StatusOf(leads', event'.request.id) \subseteq {event'.request.status}]_vars

\* C23: the collection that create() and createFromDocument() insert into is
\* the collection the dashboard filters: at the step that handles a
\* successful POST /leads or a successful extraction, with no refresh
\* involved, the "All" view of the dashboard has the new lead, the one now at
\* the head of the Index collection, at index 0.
C23_CreatedLeadInDashboard ==
    [][((SettledStep("POST") \/ SettledStep("EXTRACT"))
          /\ ~RemoteFailed(event'.outcome)) =>
          /\ filteredLeads(leads', "All") # <<>>
          /\ Head(filteredLeads(leads', "All")) = Head(indexLeads')]_vars

\* C24: a refresh whose response arrives after a later-issued delete(id) or
\* updateStatus(id, s) does not undo that local change: when the step after
\* the one that issued the DELETE or the PUT handles the response of a GET,
\* which therefore was in flight before them, the deleted lead is not in the
\* local collection afterwards, and the updated lead, if held, has the
\* status it was given.
C24_LateRefreshKeepsLocalChange ==
    [][SettledStep("GET") =>
          /\ event.type = "delete" =>
                event.request.id \notin Ids(leads')
          /\ event.type = "statusUpdate" =>
                StatusOf(leads', event.request.id) \subseteq {event.request.status}]_vars

====
